---- MODULE Spec2Model ----
(***************************************************************************)
(* Model of scripts/trace-by-color.py: a raster image is split into one    *)
(* mask per palette color, each mask is traced by potrace into a layer     *)
(* file, each layer file is rewritten into colored fragments, and the      *)
(* fragments are written out under the first processed layer's header.     *)
(*                                                                         *)
(* The external commands (magick, potrace) are inputs of the model: their  *)
(* exit (ok, CalledProcessError, OSError) and the layer file potrace       *)
(* leaves behind are chosen with \E from small sets. One loop iteration is *)
(* one step; leaving the with-block is part of the step that follows the   *)
(* loop; the locals header and paths of main live inside that one step.    *)
(***************************************************************************)
EXTENDS Integers, Sequences, FiniteSets, TLC

(* ------------------------------ bounds --------------------------------- *)
\* largest n_colors argument tried (length of the longest palette)
MaxColors == 2
\* largest number of <path .../> elements in one layer file
MaxGeoms == 2

(* ------------------------- program constants --------------------------- *)
AlphaMin == 128
WhiteMin == 220
FixedHeight == 598
FixedWidth == 644

(* ------------------------------ values --------------------------------- *)
\* Python's None; every optional value of the model is a record
None == [none |-> TRUE]

\* path attribute strings as potrace emits them (opaque, copied verbatim)
Geoms == {1, 2}

RECURSIVE SeqsUpTo(_, _)
SeqsUpTo(S, n) ==
    IF n = 0 THEN {<<>>}
    ELSE LET shorter == SeqsUpTo(S, n - 1)
         IN  shorter \cup {Append(s, x) : s \in {t \in shorter : Len(t) = n - 1}, x \in S}

\* the lines of `magick ... -unique-colors txt:-`, as (R,G,B,A) tuples
RawOutputs ==
    { << <<255, 0, 0, 255>>, <<255, 255, 255, 255>>, <<0, 128, 0, 255>>,
         <<0, 0, 255, 0>>, <<16, 32, 255, 255>>, <<0, 0, 0, 255>> >>,
      << <<255, 255, 255, 255>>, <<221, 230, 240, 255>> >> }

\* content[start:end] of a layer file: the "<svg ...>" open tag.
\* tag = FALSE is the text left when "<svg" is not found (find gives -1, the
\* slice is "" or ">"): it holds neither 'viewBox' nor 'height="598"'.
NoSvgTag == [tag |-> FALSE, width |-> 0, height |-> 0, viewBox |-> <<>>]
SvgTags ==
    { [tag |-> TRUE, width |-> FixedWidth, height |-> FixedHeight,
       viewBox |-> <<0, 0, FixedWidth, FixedHeight>>],
      [tag |-> TRUE, width |-> FixedWidth, height |-> FixedHeight, viewBox |-> <<>>],
      [tag |-> TRUE, width |-> 100, height |-> 100, viewBox |-> <<>>],
      NoSvgTag }

\* the first "<g ...>" of a layer file: absent, without a transform, with one
GTags == { [g |-> FALSE, transform |-> ""],
           [g |-> TRUE, transform |-> ""],
           [g |-> TRUE, transform |-> "translate scale"] }

\* a layer file that open()/read() cannot deliver
Unreadable == [readable |-> FALSE]

\* what potrace may leave in layer_i.svg after exit status 0
LayerFiles ==
    { [readable |-> TRUE, svg |-> s, gtag |-> g, raw_paths |-> p] :
        s \in SvgTags, g \in GTags, p \in SeqsUpTo(Geoms, MaxGeoms) }
    \cup {Unreadable}

ExitKinds == {"ok", "CalledProcessError", "OSError"}

VARIABLES
    pc,          \* position of main
    colors,      \* the palette (line 117)
    i,           \* index of the next palette color (0-based, line 124)
    failed,      \* history: the indices whose trace_color_layer call gave no color
    withGeom,    \* history: the indices whose layer file was read and held a path
    hex_color,   \* line 127/129
    content,     \* argument of a stand-alone extract_svg_paths call (line 82)
    ret,         \* what that call returned (lines 99, 102)
    all_paths,   \* line 120
    svg_header,  \* line 121
    pbm_files,   \* temporary mask bitmaps that exist
    tmpdir,      \* indices i whose layer_i.svg exists in the temporary directory
    output,      \* the output document file, None while not written
    reported,    \* the number printed by line 151, None while not printed
    msg,         \* the last message printed on the way out
    status       \* exit status, None while running

vars == <<pc, colors, i, failed, withGeom, hex_color, content, ret, all_paths,
          svg_header, pbm_files, tmpdir, output, reported, msg, status>>

(* --------------------------- pure functions ---------------------------- *)
\* f"#{r:02x}{g:02x}{b:02x}": six hexadecimal digits
Hex(color) ==
    [hex |-> << color[1] \div 16, color[1] % 16,
                color[2] \div 16, color[2] % 16,
                color[3] \div 16, color[3] % 16 >>]

\* colors[:n]
Take(s, n) == IF n >= Len(s) THEN s ELSE SubSeq(s, 1, n)

RECURSIVE FilterColors(_)
FilterColors(raw) ==
    IF raw = <<>> THEN <<>>
    ELSE LET c == Head(raw)
             rest == FilterColors(Tail(raw))
         IN  IF c[4] < AlphaMin THEN rest
             ELSE IF c[1] > WhiteMin /\ c[2] > WhiteMin /\ c[3] > WhiteMin THEN rest
             ELSE << <<c[1], c[2], c[3]>> >> \o rest

get_dominant_colors(raw, n_colors) == Take(FilterColors(raw), n_colors)

(* ------------------------- trace_color_layer --------------------------- *)
\* the mask is left behind
UnlinkSkipped(files, f) == files

\* os.unlink(pbm_path)
Unlink(files, f) == files \ {f}

\* One call of trace_color_layer for palette index idx. magick and potrace
\* are the exits of the two commands; partial tells whether a potrace that
\* failed left a file behind. The result: the returned value, whether an
\* exception left the function, the mask bitmaps that exist afterwards, and
\* whether layer_idx.svg exists afterwards.
trace_color_layer(color, magick, potrace, partial, pbm, idx) ==
    LET hex     == Hex(color)
        created == pbm \cup {idx}
        ran     == magick = "ok"
    IN  [ ret    |-> IF ran /\ potrace = "ok" THEN hex ELSE None,
          raised |-> \/ magick = "OSError"
                     \/ ran /\ potrace = "OSError",
          pbm    |-> Unlink(created, idx),
          wrote  |-> ran /\ (potrace = "ok" \/ (potrace = "CalledProcessError" /\ partial)) ]

\* no except clause around the call: the exception leaves the loop
MainTryUncaught(tr) ==
    [ hex_color |-> IF tr.raised THEN None ELSE tr.ret, escaped |-> tr.raised ]

\* try: hex_color = trace_color_layer(...) / except Exception: hex_color = None
MainTry(tr) ==
    [ hex_color |-> IF tr.raised THEN None ELSE tr.ret, escaped |-> FALSE ]

(* ------------------------- extract_svg_paths --------------------------- *)
\* the paths of the group in reverse order
ChildrenReversed(raw_paths) ==
    [k \in 1..Len(raw_paths) |-> raw_paths[Len(raw_paths) + 1 - k]]

\* '    <path {attrs}/>' for attrs in raw_paths, joined
Children(raw_paths) == raw_paths

\* [f'<path {attrs} fill="{fill_color}"/>' for attrs in raw_paths]
FilledPaths(raw_paths, fill_color) ==
    [k \in 1..Len(raw_paths) |->
        [tag |-> "path", attrs |-> raw_paths[k], fill |-> fill_color]]

extract_svg_paths(file, fill_color) ==
    IF ~file.readable
    THEN [raised |-> TRUE, header |-> None, paths |-> <<>>]
    ELSE LET svg_open  == file.svg
             g_attrs   == IF file.gtag.g THEN file.gtag.transform ELSE ""
             transform == g_attrs
             raw_paths == file.raw_paths
         IN  IF transform # ""
             THEN [raised |-> FALSE, header |-> svg_open,
                   paths |-> << [tag |-> "g", transform |-> transform,
                                 fill |-> fill_color,
                                 children |-> Children(raw_paths)] >>]
             ELSE [raised |-> FALSE, header |-> svg_open,
                   paths |-> FilledPaths(raw_paths, fill_color)]

(* -------------------------------- main --------------------------------- *)
\* the header of every processed layer replaces the retained one
SetHeaderAlways(cur, new) == new

\* if svg_header is None: svg_header = header
SetHeader(cur, new) == IF cur = None THEN new ELSE cur

\* the new fragments are put in front
ExtendFront(acc, new) == new \o acc

\* all_paths.extend(paths)
Extend(acc, new) == acc \o new

\* leaving `with tempfile.TemporaryDirectory()` removes the directory
Cleanup(dir) == {}

\* if 'viewBox' not in svg_header: svg_header.replace('height="598"', ...)
AddViewBox(h) ==
    IF h.viewBox = <<>> /\ h.tag /\ h.height = FixedHeight
    THEN [h EXCEPT !.viewBox = <<0, 0, FixedWidth, FixedHeight>>]
    ELSE h

\* the number of distinct fill colors in the document
ReportedColors(acc) == Cardinality({acc[k].fill : k \in 1..Len(acc)})

\* len(all_paths) in the final message
Reported(acc) == Len(acc)

Init ==
    /\ pc = "start"
    /\ colors = <<>>
    /\ i = 0
    /\ failed = {}
    /\ withGeom = {}
    /\ hex_color = None
    /\ content = None
    /\ ret = None
    /\ all_paths = <<>>
    /\ svg_header = None
    /\ pbm_files = {}
    /\ tmpdir = {}
    /\ output = None
    /\ reported = None
    /\ msg = ""
    /\ status = None

\* sys.exit(1) after a message, or an uncaught exception (text names it)
Exit1(text) ==
    /\ pc' = "exit"
    /\ msg' = text
    /\ status' = 1

\* lines 105-121: arguments, input check, palette
Start ==
    /\ pc = "start"
    /\ \E argc \in {2, 3}, exists \in BOOLEAN, magick \in {"ok", "CalledProcessError"},
          raw \in RawOutputs, n_colors \in 0..MaxColors :
          IF argc < 3 THEN Exit1("Usage") /\ UNCHANGED colors
          ELSE IF ~exists THEN Exit1("Input not found") /\ UNCHANGED colors
          ELSE IF magick # "ok" THEN Exit1("CalledProcessError in get_dominant_colors")
                                     /\ UNCHANGED colors
          ELSE /\ colors' = get_dominant_colors(raw, n_colors)
               /\ pc' = "loop"
               /\ UNCHANGED <<msg, status>>
    /\ UNCHANGED <<i, failed, withGeom, hex_color, content, ret, all_paths,
                   svg_header, pbm_files, tmpdir, output, reported>>

\* lines 125-134: one iteration of the loop over the palette
Body(magick, potrace, partial, file) ==
    LET color == colors[i + 1]
        tr    == trace_color_layer(color, magick, potrace, partial, pbm_files, i)
        t     == MainTry(tr)
        ex    == extract_svg_paths(file, t.hex_color)
        dir   == IF tr.wrote THEN tmpdir \cup {i} ELSE tmpdir
    IN  /\ pbm_files' = tr.pbm
        /\ failed' = IF tr.raised \/ tr.ret = None THEN failed \cup {i} ELSE failed
        /\ UNCHANGED <<colors, content, ret, output, reported>>
        /\ IF t.escaped
           THEN /\ Exit1("Exception in trace_color_layer")
                /\ tmpdir' = Cleanup(dir)
                /\ UNCHANGED <<i, withGeom, hex_color, all_paths, svg_header>>
           ELSE /\ hex_color' = t.hex_color
                /\ IF t.hex_color = None
                   THEN /\ i' = i + 1
                        /\ tmpdir' = dir
                        /\ UNCHANGED <<pc, msg, status, withGeom, all_paths, svg_header>>
                   ELSE IF ex.raised
                   THEN /\ Exit1("Exception in extract_svg_paths")
                        /\ tmpdir' = Cleanup(dir)
                        /\ UNCHANGED <<i, withGeom, all_paths, svg_header>>
                   ELSE /\ withGeom' = IF file.raw_paths # <<>>
                                         THEN withGeom \cup {i} ELSE withGeom
                        /\ svg_header' = SetHeader(svg_header, ex.header)
                        /\ all_paths' = Extend(all_paths, ex.paths)
                        /\ i' = i + 1
                        /\ tmpdir' = dir
                        /\ UNCHANGED <<pc, msg, status>>

Iterate ==
    /\ pc = "loop"
    /\ i < Len(colors)
    /\ \/ \E magick \in ExitKinds \ {"ok"} :
             Body(magick, "ok", FALSE, Unreadable)
       \/ \E potrace \in ExitKinds \ {"ok"}, partial \in BOOLEAN :
             Body("ok", potrace, partial, Unreadable)
       \/ \E file \in LayerFiles :
             Body("ok", "ok", FALSE, file)

\* lines 135-138: the with-block is left, nothing was collected
NoPaths ==
    /\ pc = "loop"
    /\ i = Len(colors)
    /\ tmpdir' = Cleanup(tmpdir)
    /\ all_paths = <<>>
    /\ Exit1("No paths generated")
    /\ UNCHANGED <<colors, i, failed, withGeom, hex_color, content, ret, all_paths,
                   svg_header, pbm_files, output, reported>>

\* lines 135-151: the with-block is left, the document is assembled and written
Assemble ==
    /\ pc = "loop"
    /\ i = Len(colors)
    /\ tmpdir' = Cleanup(tmpdir)
    /\ all_paths # <<>>
    /\ IF svg_header = None
       THEN /\ Exit1("TypeError in main")
            /\ UNCHANGED <<svg_header, output, reported>>
       ELSE /\ svg_header' = AddViewBox(svg_header)
            /\ output' = [header |-> svg_header', body |-> all_paths]
            /\ reported' = [n |-> Reported(all_paths)]
            /\ pc' = "exit"
            /\ msg' = "Wrote"
            /\ status' = 0
    /\ UNCHANGED <<colors, i, failed, withGeom, hex_color, content, ret, all_paths,
                   pbm_files>>

Next == Start \/ Iterate \/ NoPaths \/ Assemble

Spec == Init /\ [][Next]_vars

(* ------------------ extract_svg_paths on its own ----------------------- *)
\* the colors a palette can hold
PaletteColors ==
    UNION { {FilterColors(raw)[k] : k \in 1..Len(FilterColors(raw))} : raw \in RawOutputs }

InitExtract ==
    /\ pc = "call"
    /\ content \in LayerFiles
    /\ hex_color \in {Hex(c) : c \in PaletteColors}
    /\ colors = <<>>
    /\ i = 0
    /\ failed = {}
    /\ withGeom = {}
    /\ ret = None
    /\ all_paths = <<>>
    /\ svg_header = None
    /\ pbm_files = {}
    /\ tmpdir = {}
    /\ output = None
    /\ reported = None
    /\ msg = ""
    /\ status = None

\* header, paths = extract_svg_paths(layer_svg, hex_color)
ExtractCall ==
    /\ pc = "call"
    /\ ret' = extract_svg_paths(content, hex_color)
    /\ pc' = IF ret'.raised THEN "raised" ELSE "returned"
    /\ UNCHANGED <<colors, i, failed, withGeom, hex_color, content, all_paths,
                   svg_header, pbm_files, tmpdir, output, reported, msg, status>>

NextExtract == ExtractCall

SpecExtract == InitExtract /\ [][NextExtract]_vars

(* ------------------------------ claims --------------------------------- *)
Fills(acc) == {acc[k].fill : k \in 1..Len(acc)}

HexOf(k) == Hex(colors[k + 1])

\* position (1-based) of a fill color in the palette
IndexOf(fill) == CHOOSE k \in 1..Len(colors) : Hex(colors[k]) = fill

\* the loop over the palette has finished and the run has ended
LoopDone ==
    /\ pc = "exit"
    /\ msg \in {"No paths generated", "Wrote", "TypeError in main"}

\* C1: when the loop has finished and no color's layer held any path geometry,
\* the run ends with 'No paths generated' and exit status 1, and the output
\* file is not written.
C1_NoGeometryFails ==
    (LoopDone /\ withGeom = {}) =>
        (msg = "No paths generated" /\ status = 1 /\ output = None)

\* C2: a color whose trace_color_layer call fails contributes no fragment, the
\* loop is never left because of that failure, every palette color has been
\* processed when the document is written, and every color whose layer was
\* read with geometry has its fragments in the document.
C2_FailureIsolated ==
    /\ \A k \in failed : HexOf(k) \notin Fills(all_paths)
    /\ \A k \in withGeom : HexOf(k) \in Fills(all_paths)
    /\ (pc = "exit" /\ i < Len(colors)) => i \notin failed
    /\ output # None =>
          /\ i = Len(colors)
          /\ output.body = all_paths
          /\ failed \cup withGeom \subseteq 0..(Len(colors) - 1)

C2_Witness ==
    /\ output # None
    /\ \E f \in failed : \E k \in withGeom : f < k /\ HexOf(k) \in Fills(output.body)

\* C3: the fragments collected, and those written, are in palette order: a
\* fragment of an earlier palette color is never after one of a later color.
C3_PaletteOrder ==
    /\ \A a, b \in 1..Len(all_paths) :
          a < b => IndexOf(all_paths[a].fill) <= IndexOf(all_paths[b].fill)
    /\ output # None => output.body = all_paths

C3_Witness ==
    /\ output # None
    /\ Cardinality(Fills(output.body)) >= 2
    /\ Len(output.body) >= 3

\* C4: a layer without path geometry adds no fragment, with or without a
\* transform: every fragment collected belongs to a color whose layer held a path.
C4_EmptyLayerDropped ==
    Fills(all_paths) \subseteq {HexOf(k) : k \in withGeom}

\* C5: a layer file that cannot be read does not end the run: the loop is never
\* left by an exception of extract_svg_paths.
C5_MalformedDropped ==
    msg # "Exception in extract_svg_paths"

\* C6: every written document has a header with a coordinate box.
C6_ViewBoxAlways ==
    output # None => output.header.viewBox # <<>>

\* C7: after every call of trace_color_layer no mask bitmap exists, and when
\* the run has ended no layer file exists.
C7_TempFilesReleased ==
    /\ pbm_files = {}
    /\ pc = "exit" => tmpdir = {}

C7_Witness ==
    /\ pc = "exit"
    /\ msg = "Exception in extract_svg_paths"
    /\ withGeom # {}
    /\ tmpdir = {}
    /\ pbm_files = {}

\* C8 as claimed: the number reported equals the number of colors that have a
\* fragment in the written document.
C8_ReportsColorCount ==
    output # None => reported.n = Cardinality(Fills(output.body))

\* C8 as amended: the number reported is the number of fragments written, one
\* per grouped layer and one per geometry of an ungrouped layer; it is the
\* number of colors used exactly when no color has two fragments.
C8_ReportsFragmentCount ==
    output # None =>
        /\ reported.n = Len(output.body)
        /\ reported.n >= Cardinality(Fills(output.body))
        /\ (reported.n = Cardinality(Fills(output.body))) <=>
              (\A a, b \in 1..Len(output.body) :
                  output.body[a].fill = output.body[b].fill => a = b)

C8_Witness ==
    /\ output # None
    /\ reported.n > Cardinality(Fills(output.body))
    /\ \E a, b \in 1..Len(output.body) :
          output.body[a].tag = "g" /\ output.body[b].tag = "path"

\* C9: a layer with n >= 1 geometries and a transform t becomes one group with
\* t and the fill, holding the geometries verbatim in order; without a
\* transform it becomes n paths in order, each with the fill.
C9_Normalization ==
    (pc = "returned" /\ Len(content.raw_paths) >= 1) =>
        LET g == content.raw_paths
            t == content.gtag.transform
            p == ret.paths
        IN  IF content.gtag.g /\ t # ""
            THEN /\ Len(p) = 1
                 /\ p[1].tag = "g"
                 /\ p[1].transform = t
                 /\ p[1].fill = hex_color
                 /\ Len(p[1].children) = Len(g)
                 /\ \A k \in 1..Len(g) : p[1].children[k] = g[k]
            ELSE /\ Len(p) = Len(g)
                 /\ \A k \in 1..Len(g) :
                       /\ p[k].tag = "path"
                       /\ p[k].attrs = g[k]
                       /\ p[k].fill = hex_color

C9_Witness ==
    /\ pc = "returned"
    /\ content.gtag.transform # ""
    /\ Len(content.raw_paths) >= 2
    /\ content.raw_paths[1] # content.raw_paths[2]
    /\ ret.paths[1].children = content.raw_paths

\* C10: fragments are collected only once the header is set, the header once
\* set is kept (the step that writes the document changes its coordinate box
\* only), and the document is written under a header.
C10_HeaderKept ==
    /\ [](all_paths # <<>> => svg_header # None)
    /\ [](output # None => output.header # None)
    /\ [][svg_header # None =>
            \/ svg_header' = svg_header
            \/ /\ output = None /\ output' # None
               /\ svg_header' = [svg_header EXCEPT !.viewBox = svg_header'.viewBox]]_vars

C10_Witness ==
    /\ pc = "loop"
    /\ i >= 2
    /\ svg_header # None
    /\ Cardinality(Fills(all_paths)) >= 2

====
